---- MODULE Spec2Model ----
(***************************************************************************)
(* Model of the task-graph mutation engine                                 *)
(* (backend/llm_model/graph_operations.py, class GraphOperations), of the  *)
(* tool layer that builds its payloads (backend/llm_model/tools.py) and of *)
(* a streaming turn (backend/llm_model/agent.py: the reasoning thread, its *)
(* wrapped tools and the relay loop of query_stream).                      *)
(*                                                                         *)
(* GraphData is the pair (nodes, links): two Python lists of dicts, kept   *)
(* here as sequences of records.  Every GraphOperations method is a static *)
(* function of (payload, graph_data) that mutates graph_data in place and  *)
(* returns a change descriptor or None; it is modelled by an operator of   *)
(* the same name that yields [ret, nodes, links].                          *)
(*                                                                         *)
(* Python values: strings are strings, None is the string NoneVal, a dict  *)
(* is a function from its keys to its values.                              *)
(***************************************************************************)
EXTENDS Integers, Sequences, FiniteSets, TLC

VARIABLES
    nodes,      \* graph_data["nodes"]: sequence of [id, name, description, status]
    links,      \* graph_data["links"]: sequence of [source, target]
    op,         \* the GraphOperations method called last ("init" before any call)
    arg,        \* the payload it was called with
    ret,        \* what it returned: a change descriptor, or None
    pnodes,     \* graph_data["nodes"] as it was when that call started
    plinks,     \* graph_data["links"] as it was when that call started
    pc,             \* where query_stream stands
    streaming_tools,\* the names of the tools the turn's driver is given
    stream_queue,   \* the queue between the reasoning thread and the relay
    to_put,         \* the fragments stream_smoothly has still to put
    put_log,        \* every message put on stream_queue so far, in order
    agent_done,     \* the Event run_react_agent sets when it ends
    agent_error,    \* whether run_react_agent stored an exception
    yielded,        \* the events query_stream has yielded, in order
    live_yielded,   \* the positions of yielded whose graph_data is the live object
    response        \* what generate_streaming_response has sent, in order

graph_vars == <<nodes, links, op, arg, ret, pnodes, plinks>>
stream_vars ==
    <<pc, streaming_tools, stream_queue, to_put, put_log, agent_done, agent_error, yielded,
      live_yielded, response>>
vars == <<graph_vars, stream_vars>>

----------------------------------------------------------------------------
(* Bounds of the model. *)

MaxNodes == 3
MaxLinks == 3
MaxAttrNodes == 2
MaxAttrLinks == 1
MaxEvents == 3
MaxText == 6
MaxTreeLinks == 3
MaxReqNodes == 2
MaxReqLinks == 1

----------------------------------------------------------------------------
(* Python values. *)

NoneVal == "<None>"

\* Python truthiness of a string-or-None value: None and "" are falsy.
Truthy(v) == v # NoneVal /\ v # ""

\* The return value None of a GraphOperations method.
None == [action |-> "<None>"]

\* list.append and the list comprehensions of the source.
Range(s) == {s[i] : i \in DOMAIN s}

\* {f : f is a dict with keys K and f[k] in V[k]}
DictsWith(K, V) == {f \in [K -> UNION {V[k] : k \in K}] : \A k \in K : f[k] \in V[k]}

\* Dicts holding every key of req and any subset of the keys of opt.
Dicts(req, opt, V) == UNION {DictsWith(req \cup O, V) : O \in SUBSET opt}

----------------------------------------------------------------------------
(* Payloads.  A payload is structured data (a dict, or something that is   *)
(* not a dict) or a string.  A string is known by what the code asks of    *)
(* it: whether its lowercase form contains "error", and what json.loads    *)
(* and ast.literal_eval make of it: a value (a dict, None, or something    *)
(* else), the exception the code catches (json.JSONDecodeError;            *)
(* SyntaxError or ValueError), or an exception it does not catch.          *)

ParseFail == [kind |-> "fail"]
NotADict == [kind |-> "other"]
PyNone == [kind |-> "none"]
Raises == [kind |-> "raise"]
IsDict(v) == v.kind = "dict"
AsDict(d) == [kind |-> "dict", d |-> d]

Structured(v) == [shape |-> "data", v |-> v]
Str(err, json, lit) == [shape |-> "str", err |-> err, json |-> json, lit |-> lit]

\* The payload shapes a body d (a dict) can arrive in, and the payloads
\* that carry no dict at all.
JsonText(d) == Str(FALSE, AsDict(d), ParseFail)
LiteralText(d) == Str(FALSE, ParseFail, AsDict(d))
ErrorText(d) == Str(TRUE, AsDict(d), ParseFail)
Garbage == Str(FALSE, ParseFail, ParseFail)
JsonScalar == Str(FALSE, NotADict, NotADict)
NonDictData == Structured(NotADict)

\* Texts such as '{[1]: 2}' (json.loads rejects it, ast.literal_eval raises
\* TypeError: unhashable type), a text of 100000 opening brackets
\* (json.loads raises RecursionError), 'null', 'None', and a text both
\* parsers accept with different values, such as '{"id": "a\/b"}'.
Unhashable == Str(FALSE, ParseFail, Raises)
TooDeep == Str(FALSE, Raises, ParseFail)
JsonNull == Str(FALSE, PyNone, ParseFail)
NoneLiteral == Str(FALSE, ParseFail, PyNone)
TwoReadings(d, e) == Str(FALSE, AsDict(d), AsDict(e))

BadPayloads == {Garbage, JsonScalar, NonDictData}

----------------------------------------------------------------------------
(* GraphOperations *)

\* parse_tool_result: the value it returns (AsDict(d), NotADict, or PyNone
\* for None), or Raises when an exception leaves it.
parse_tool_result(tool_result) ==
    IF tool_result.shape = "str" /\ tool_result.err
    THEN PyNone
    ELSE IF tool_result.shape = "str"
         THEN IF tool_result.json # ParseFail
              THEN tool_result.json
              ELSE IF tool_result.lit # ParseFail
                   THEN tool_result.lit
                   ELSE PyNone
         ELSE tool_result.v

validate_node_data(node) ==
    /\ IsDict(node)
    /\ \A field \in {"id", "name", "description"} : field \in DOMAIN node.d

\* A parent check that is content with any node at all.
parent_exists_AnyNode(parent_id, N) ==
    \E i \in DOMAIN N : TRUE

parent_exists(parent_id, N) ==
    \E i \in DOMAIN N : N[i].id = parent_id

\* dict.get(key, default)
Get(d, key, default) == IF key \in DOMAIN d THEN d[key] ELSE default

\* A lookup that is left with the loop variable, the last node, when no
\* node has the id.
FindNode_LoopVariable(N, id) ==
    IF \E i \in DOMAIN N : N[i].id = id
    THEN CHOOSE i \in DOMAIN N : N[i].id = id /\ \A j \in 1..(i - 1) : N[j].id # id
    ELSE Len(N)

\* The index of the first node whose id is id, 0 when there is none
\* (the "for node in nodes: if node["id"] == id: ...; break" loops).
FindNode(N, id) ==
    IF \E i \in DOMAIN N : N[i].id = id
    THEN CHOOSE i \in DOMAIN N : N[i].id = id /\ \A j \in 1..(i - 1) : N[j].id # id
    ELSE 0

Link(s, t) == [source |-> s, target |-> t]

\* What a call returns when it gives up: None, the graph as it is.
NoChange(N, L) == [ret |-> None, nodes |-> N, links |-> L]

\* A call that an exception leaves before it has written anything: the
\* caller gets the exception, not a result.
Raised == [action |-> "<raise>"]
Raise(N, L) == [ret |-> Raised, nodes |-> N, links |-> L]

\* create_task_node once the payload is parsed and validated: the link to
\* the parent, when it is truthy and exists, then the node.
CreateNode(d, N, L) ==
    LET parent_id0 == Get(d, "parent_id", NoneVal)
        parent_id == IF Truthy(parent_id0) /\ ~parent_exists(parent_id0, N)
                     THEN NoneVal
                     ELSE parent_id0
        L1 == IF Truthy(parent_id) THEN Append(L, Link(parent_id, d["id"])) ELSE L
        description == Get(d, "description", "")
        N1 == Append(N, [id |-> d["id"], name |-> d["name"],
                         description |-> description, status |-> "notStarted"])
    IN  [ret |-> [action |-> "create", name |-> d["name"], id |-> d["id"]],
         nodes |-> N1, links |-> L1]

\* A create_task_node that appends the node before it looks at what
\* validate_node_data said.
create_task_node_ValidatesLate(node_data, N, L) ==
    LET node == parse_tool_result(node_data) IN
    IF node = Raises THEN Raise(N, L)
    ELSE IF node = PyNone \/ ~IsDict(node) THEN NoChange(N, L)
    ELSE IF ~({"id", "name"} \subseteq DOMAIN node.d) THEN NoChange(N, L)
    ELSE IF ~validate_node_data(node)
         THEN [CreateNode(node.d, N, L) EXCEPT !.ret = None]
         ELSE CreateNode(node.d, N, L)

create_task_node(node_data, N, L) ==
    LET node == parse_tool_result(node_data) IN
    IF node = Raises THEN Raise(N, L)
    ELSE IF node = PyNone THEN NoChange(N, L)
    ELSE IF ~validate_node_data(node) THEN NoChange(N, L)
    ELSE CreateNode(node.d, N, L)

\* The nodes with node i's field f set to v (an in-place write to one dict).
SetField(N, i, f, v) == [N EXCEPT ![i] = [N[i] EXCEPT ![f] = v]]

\* A name that is written whenever the payload holds one.
EditedName_AnyName(d, node) ==
    IF "name" \in DOMAIN d THEN d["name"] ELSE node.name

\* The name edit_task_node leaves in the node: the payload's when it holds
\* a truthy one.
EditedName(d, node) ==
    IF "name" \in DOMAIN d /\ Truthy(d["name"]) THEN d["name"] ELSE node.name

\* A description that is written only when the payload's is truthy, as the
\* name is.
EditedDescription_Truthy(d, node) ==
    IF "description" \in DOMAIN d /\ Truthy(d["description"])
    THEN d["description"]
    ELSE node.description

\* The description edit_task_node leaves in the node: the payload's when it
\* holds one that is not None.
EditedDescription(d, node) ==
    IF "description" \in DOMAIN d
    THEN IF d["description"] # NoneVal THEN d["description"] ELSE node.description
    ELSE node.description

\* As EditedLinks, but every link that touches the node goes, the links to
\* its children too.
EditedLinks_DropsChildren(d, N, L) ==
    IF "parent_id" \notin DOMAIN d
    THEN L
    ELSE LET L1 == SelectSeq(L, LAMBDA link : link.target # d["id"] /\ link.source # d["id"])
             new_parent_id == d["parent_id"]
         IN  IF Truthy(new_parent_id) /\ parent_exists(new_parent_id, N)
             THEN Append(L1, Link(new_parent_id, d["id"]))
             ELSE L1

\* The links edit_task_node leaves: with a parent_id in the payload, the
\* links to the node go and one from the new parent comes, when it is
\* truthy and exists.
EditedLinks(d, N, L) ==
    IF "parent_id" \notin DOMAIN d
    THEN L
    ELSE LET L1 == SelectSeq(L, LAMBDA link : link.target # d["id"])
             new_parent_id == d["parent_id"]
         IN  IF Truthy(new_parent_id) /\ parent_exists(new_parent_id, N)
             THEN Append(L1, Link(new_parent_id, d["id"]))
             ELSE L1

edit_task_node(edit_data, N, L) ==
    LET edit_info == parse_tool_result(edit_data) IN
    IF edit_info = Raises THEN Raise(N, L)
    ELSE IF edit_info = PyNone THEN NoChange(N, L)
    ELSE IF ~IsDict(edit_info) \/ "id" \notin DOMAIN edit_info.d THEN NoChange(N, L)
    ELSE
    LET d == edit_info.d
        node_to_edit == FindNode(N, d["id"])
    IN
    IF node_to_edit = 0 THEN NoChange(N, L)
    ELSE
    LET N1 == SetField(N, node_to_edit, "name", EditedName(d, N[node_to_edit]))
        N2 == SetField(N1, node_to_edit, "description",
                       EditedDescription(d, N1[node_to_edit]))
    IN  [ret |-> [action |-> "edit", name |-> N2[node_to_edit].name, id |-> d["id"]],
         nodes |-> N2, links |-> EditedLinks(d, N2, L)]

valid_statuses == {"notStarted", "inProgress", "completed"}

\* An update_task_status that writes whatever status it is given.
update_task_status_AnyStatus(status_data, N, L) ==
    LET update_info == parse_tool_result(status_data) IN
    IF update_info = Raises THEN Raise(N, L)
    ELSE IF update_info = PyNone THEN NoChange(N, L)
    ELSE IF \/ ~IsDict(update_info)
            \/ "id" \notin DOMAIN update_info.d
            \/ "status" \notin DOMAIN update_info.d
    THEN NoChange(N, L)
    ELSE
    LET d == update_info.d
        node_to_update == FindNode(N, d["id"])
    IN
    IF node_to_update = 0 THEN NoChange(N, L)
    ELSE
        [ret |-> [action |-> "update_status", name |-> N[node_to_update].name,
                  id |-> d["id"], old_status |-> N[node_to_update].status,
                  new_status |-> d["status"]],
         nodes |-> SetField(N, node_to_update, "status", d["status"]),
         links |-> L]

\* An update_task_status that reads old_status after it has written the new
\* one.
update_task_status_OldAfterWrite(status_data, N, L) ==
    LET update_info == parse_tool_result(status_data) IN
    IF update_info = Raises THEN Raise(N, L)
    ELSE IF update_info = PyNone THEN NoChange(N, L)
    ELSE IF \/ ~IsDict(update_info)
            \/ "id" \notin DOMAIN update_info.d
            \/ "status" \notin DOMAIN update_info.d
    THEN NoChange(N, L)
    ELSE
    LET d == update_info.d
        node_to_update == FindNode(N, d["id"])
    IN
    IF d["status"] \notin valid_statuses THEN NoChange(N, L)
    ELSE IF node_to_update = 0 THEN NoChange(N, L)
    ELSE
        [ret |-> [action |-> "update_status", name |-> N[node_to_update].name,
                  id |-> d["id"], old_status |-> d["status"],
                  new_status |-> d["status"]],
         nodes |-> SetField(N, node_to_update, "status", d["status"]),
         links |-> L]

update_task_status(status_data, N, L) ==
    LET update_info == parse_tool_result(status_data) IN
    IF update_info = Raises THEN Raise(N, L)
    ELSE IF update_info = PyNone THEN NoChange(N, L)
    ELSE IF \/ ~IsDict(update_info)
            \/ "id" \notin DOMAIN update_info.d
            \/ "status" \notin DOMAIN update_info.d
    THEN NoChange(N, L)
    ELSE
    LET d == update_info.d
        new_status == d["status"]
        node_to_update == FindNode(N, d["id"])
    IN
    IF new_status \notin valid_statuses THEN NoChange(N, L)
    ELSE IF node_to_update = 0 THEN NoChange(N, L)
    ELSE
    LET old_status == N[node_to_update].status IN
        [ret |-> [action |-> "update_status", name |-> N[node_to_update].name,
                  id |-> d["id"], old_status |-> old_status, new_status |-> new_status],
         nodes |-> SetField(N, node_to_update, "status", new_status),
         links |-> L]

\* [link[field] for link in s]
Field(s, f) == [i \in DOMAIN s |-> s[i][f]]

\* The nested find_all_descendants of delete_task_node: a depth-first walk
\* along the links from nid that shares one visited set among its calls.
\* Yields the ids in the order found and the visited set it leaves.
RECURSIVE find_all_descendants(_, _, _), VisitChildren(_, _, _)
find_all_descendants(nid, visited, L) ==
    IF nid \in visited
    THEN [descendants |-> <<>>, visited |-> visited]
    ELSE LET direct_children ==
                 Field(SelectSeq(L, LAMBDA link : link.source = nid), "target")
         IN  VisitChildren(direct_children,
                           [descendants |-> <<nid>>, visited |-> visited \cup {nid}], L)

\* As VisitChildren, but each child is searched with the visited set as it
\* was before its siblings were searched.
VisitChildren_OwnVisited(children, acc, L) ==
    IF children = <<>>
    THEN acc
    ELSE LET sub == find_all_descendants(Head(children), acc.visited, L)
         IN  VisitChildren(Tail(children),
                           [descendants |-> acc.descendants \o sub.descendants,
                            visited |-> acc.visited], L)

\* "for child_id in direct_children: descendants.extend(find_all_descendants(...))"
VisitChildren(children, acc, L) ==
    IF children = <<>>
    THEN acc
    ELSE LET sub == find_all_descendants(Head(children), acc.visited, L)
         IN  VisitChildren(Tail(children),
                           [descendants |-> acc.descendants \o sub.descendants,
                            visited |-> sub.visited], L)

\* "parent_id = None; for link in links: if link["target"] == node_id: ...; break"
FirstParent(L, node_id) ==
    IF \E i \in DOMAIN L : L[i].target = node_id
    THEN L[CHOOSE i \in DOMAIN L :
               L[i].target = node_id /\ \A j \in 1..(i - 1) : L[j].target # node_id].source
    ELSE NoneVal

\* Case 1 of delete_task_node: the node has a parent, its children are
\* reconnected to it.
ReconnectChildren(node_id, name, parent_id, children_ids, N, L) ==
    LET L1 == SelectSeq(L, LAMBDA link : link.source # node_id /\ link.target # node_id)
        L2 == L1 \o [i \in DOMAIN children_ids |-> Link(parent_id, children_ids[i])]
        N1 == SelectSeq(N, LAMBDA node : node.id # node_id)
    IN  [ret |-> [action |-> "delete", name |-> name, id |-> node_id,
                  deleted_nodes |-> <<node_id>>,
                  reconnected_children |-> Len(children_ids),
                  cascade_deleted |-> 0],
         nodes |-> N1, links |-> L2]

\* Case 2 of delete_task_node: the node is a root, all its descendants are
\* deleted with it.
CascadeDelete(node_id, name, N, L) ==
    LET nodes_to_delete == find_all_descendants(node_id, {}, L).descendants
        gone == Range(nodes_to_delete)
        L1 == SelectSeq(L, LAMBDA link : link.source \notin gone /\ link.target \notin gone)
        N1 == SelectSeq(N, LAMBDA node : node.id \notin gone)
    IN  [ret |-> [action |-> "delete", name |-> name, id |-> node_id,
                  deleted_nodes |-> nodes_to_delete,
                  reconnected_children |-> 0,
                  cascade_deleted |-> Len(nodes_to_delete)],
         nodes |-> N1, links |-> L1]

delete_task_node(delete_data, N, L) ==
    LET delete_info == parse_tool_result(delete_data) IN
    IF delete_info = Raises THEN Raise(N, L)
    ELSE IF delete_info = PyNone THEN NoChange(N, L)
    ELSE IF ~IsDict(delete_info) \/ "id" \notin DOMAIN delete_info.d THEN NoChange(N, L)
    ELSE
    LET node_id == delete_info.d["id"]
        node_to_delete == FindNode(N, node_id)
    IN
    IF node_to_delete = 0 THEN NoChange(N, L)
    ELSE
    LET parent_id == FirstParent(L, node_id)
        children_ids == Field(SelectSeq(L, LAMBDA link : link.source = node_id), "target")
        name == N[node_to_delete].name
    IN
    IF Truthy(parent_id)
    THEN ReconnectChildren(node_id, name, parent_id, children_ids, N, L)
    ELSE CascadeDelete(node_id, name, N, L)

----------------------------------------------------------------------------
(* The tool layer (tools.py) and the streaming helpers.                    *)

\* tools.create_task_node; now is the id the clock yields, node_<timestamp>.
tool_create_task_node(task_name, task_description, parent_id, now) ==
    [id |-> now, name |-> task_name, description |-> task_description,
     parent_id |-> parent_id]

\* tools.edit_task_node: a key for every argument that is not None, and
\* None for the parent_id "null".
tool_edit_task_node(node_id, name, description, parent_id) ==
    LET given == [name |-> name, description |-> description, parent_id |-> parent_id]
        keys == {"id", "edit"} \cup {k \in DOMAIN given : given[k] # NoneVal}
    IN  [k \in keys |->
            CASE k = "id" -> node_id
              [] k = "edit" -> "True"    \* True, which nothing reads
              [] k = "parent_id" -> IF parent_id = "null" THEN NoneVal ELSE parent_id
              [] OTHER -> given[k]]

\* tools.update_task_status and tools.delete_task_node: the dict of the
\* arguments; tools.finish: the string "Finish", which is not a dict.
tool_update_task_status(node_id, status) == [id |-> node_id, status |-> status]
tool_delete_task_node(node_id) == [id |-> node_id]
tool_finish == NotADict

\* The names of the tools dict of tools.py.
tools ==
    {"create_task_node", "edit_task_node", "update_task_status", "delete_task_node",
     "finish"}

\* The names of the tools Agent._create_streaming_tools returns.
create_streaming_tools == {"create_task_node", "edit_task_node", "finish"}

chunk_size == 3

\* The smaller of two numbers.
Min(a, b) == IF a < b THEN a ELSE b

\* StreamingLM.stream_smoothly: the messages it puts for a text (a sequence
\* of characters), in order.
stream_smoothly_DropsTail(text, msg_type, size) ==
    [k \in 1..(Len(text) \div size) |->
        [msg_type |-> msg_type,
         content |-> SubSeq(text, (k - 1) * size + 1, k * size)]]

stream_smoothly(text, msg_type, size) ==
    [k \in 1..((Len(text) + size - 1) \div size) |->
        [msg_type |-> msg_type,
         content |-> SubSeq(text, (k - 1) * size + 1, Min(k * size, Len(text)))]]

\* What a wrapped tool puts on the queue for a change descriptor.
GraphUpdate(graph_update, N, L) ==
    [msg_type |-> "graph_update",
     content |-> [action |-> graph_update, graph_data |-> [nodes |-> N, links |-> L]]]

\* As Yield, but for a message whose graph_data is the turn's graph_data
\* itself, not a copy: what is yielded is the graph as it is by then.
Yield_LiveGraph(msg) ==
    IF msg.msg_type = "graph_update"
    THEN [type |-> "graph_update", graph_data |-> [nodes |-> nodes, links |-> links]]
    ELSE [type |-> msg.msg_type, content |-> msg.content]

\* What query_stream yields for a message it took from the queue.
Yield(msg) ==
    IF msg.msg_type = "graph_update"
    THEN [type |-> "graph_update", graph_data |-> msg.content.graph_data]
    ELSE [type |-> msg.msg_type, content |-> msg.content]

\* What the except clause of query_stream yields.
ErrorToken == [type |-> "token", content |-> <<"Sorry, I encountered an error">>]

\* What generate_streaming_response sends for a chunk of query_stream: the
\* line "data: <json.dumps(chunk)>", the chunk's value at that moment.
SSE(chunk) == [data |-> chunk]

----------------------------------------------------------------------------
(* The inputs of the model: the payloads the methods are called with.      *)

\* Node ids; a parent_id is one of them or None.  "" is a string like any
\* other to the code, and the only falsy one.
Ids == {"", "a", "b"}
ParentIds == Ids \cup {NoneVal}
Names == {"n1"}
Descriptions == {"d"}
Statuses == {"notStarted", "bogus"}

PayloadValues ==
    [id |-> Ids, name |-> Names, description |-> Descriptions,
     parent_id |-> ParentIds, status |-> Statuses]

\* What tools.py builds for each tool, with or without the optional keys.
CreateBodies(V) == Dicts({"id", "name", "description"}, {"parent_id"}, V)
EditBodies(V) == Dicts({"id"}, {"parent_id"}, V)
StatusBodies(V) == DictsWith({"id", "status"}, V)
DeleteBodies(V) == DictsWith({"id"}, V)

\* Dicts that lack a key some method requires.
OtherBodies ==
    {[name |-> "n1"], [id |-> "a"], [id |-> "a", name |-> "n1"], [status |-> "notStarted"]}

\* A body arrives as the dict itself; the bodies of TextBodies also arrive
\* as text, in each encoding.
Texts(d) == {JsonText(d), LiteralText(d), ErrorText(d)}
TextBodies ==
    {[id |-> "a"], [id |-> "a", name |-> "n1", description |-> "d"],
     [id |-> "a", status |-> "notStarted"]}
Payloads(bodies) ==
    {Structured(AsDict(d)) : d \in bodies \cup OtherBodies}
        \cup UNION {Texts(d) : d \in bodies \cap TextBodies}
        \cup BadPayloads

CreatePayloads == Payloads(CreateBodies(PayloadValues))
EditPayloads == Payloads(EditBodies(PayloadValues))
StatusPayloads == Payloads(StatusBodies(PayloadValues))
DeletePayloads == Payloads(DeleteBodies(PayloadValues))

\* The inputs that vary what a node holds rather than where it hangs: two
\* ids, and every kind of name, description and status.
AttrCreateValues ==
    [id |-> {"a", "b"}, name |-> {"n1"}, description |-> {"d", NoneVal},
     parent_id |-> {NoneVal, "a"}]
AttrEditValues ==
    [id |-> {"a", "b"}, name |-> {"n2", "", NoneVal},
     description |-> {"d", "", NoneVal}, parent_id |-> {NoneVal, "a"}]
AttrStatusValues ==
    [id |-> {"a", "b"}, status |-> valid_statuses \cup {"bogus"}]

AttrCreatePayloads == Payloads(CreateBodies(AttrCreateValues))
AttrEditPayloads ==
    Payloads(Dicts({"id"}, {"name", "description", "parent_id"}, AttrEditValues))
AttrStatusPayloads == Payloads(StatusBodies(AttrStatusValues))
AttrDeletePayloads == Payloads(DeleteBodies(AttrStatusValues))

\* The dict a payload carries, whatever its encoding (for a payload that
\* carries one).
CarriesDict(p) ==
    \/ p.shape = "data" /\ p.v.kind = "dict"
    \/ p.shape = "str" /\ (p.json.kind = "dict" \/ p.lit.kind = "dict")
Sent(p) ==
    IF p.shape = "data" THEN p.v.d
    ELSE IF p.json.kind = "dict" THEN p.json.d ELSE p.lit.d

NodeIds(N) == {N[i].id : i \in DOMAIN N}

----------------------------------------------------------------------------
(* The specification: any sequence of GraphOperations calls on one         *)
(* GraphData, which starts empty.  A call runs to completion (the methods  *)
(* are synchronous and GraphData is owned by one request); op, arg, ret,   *)
(* pnodes and plinks hold the call until the caller takes the result.      *)

Idle ==
    /\ op = "idle"
    /\ arg = Garbage
    /\ ret = None
    /\ pnodes = <<>>
    /\ plinks = <<>>

\* No streaming turn has started.
NoTurn ==
    /\ pc = "start"
    /\ streaming_tools = {}
    /\ stream_queue = <<>>
    /\ to_put = <<>>
    /\ put_log = <<>>
    /\ agent_done = FALSE
    /\ agent_error = FALSE
    /\ yielded = <<>>
    /\ live_yielded = {}
    /\ response = <<>>

Init ==
    /\ nodes = <<>>
    /\ links = <<>>
    /\ Idle
    /\ NoTurn

\* One call: r is what the method makes of the payload p and the graph.
Call(name, p, r) ==
    /\ op = "idle"
    /\ nodes' = r.nodes
    /\ links' = r.links
    /\ op' = name
    /\ arg' = p
    /\ ret' = r.ret
    /\ pnodes' = nodes
    /\ plinks' = links

Create(p) ==
    Call("create", p, create_task_node(p, nodes, links)) /\ UNCHANGED stream_vars
Edit(p) ==
    Call("edit", p, edit_task_node(p, nodes, links)) /\ UNCHANGED stream_vars
UpdateStatus(p) ==
    Call("update_status", p, update_task_status(p, nodes, links)) /\ UNCHANGED stream_vars
Delete(p) ==
    Call("delete", p, delete_task_node(p, nodes, links)) /\ UNCHANGED stream_vars

\* The caller has the result; the next call can start.
Return ==
    /\ op # "idle"
    /\ op' = "idle"
    /\ arg' = Garbage
    /\ ret' = None
    /\ pnodes' = <<>>
    /\ plinks' = <<>>
    /\ UNCHANGED <<nodes, links>>
    /\ UNCHANGED stream_vars

\* The graphs the model keeps.
Bounded == Len(nodes') <= MaxNodes /\ Len(links') <= MaxLinks

Next ==
    \/ \E p \in CreatePayloads : Create(p) /\ Bounded
    \/ \E p \in EditPayloads : Edit(p) /\ Bounded
    \/ \E p \in StatusPayloads : UpdateStatus(p) /\ Bounded
    \/ \E p \in DeletePayloads : Delete(p) /\ Bounded
    \/ Return

Spec == Init /\ [][Next]_vars

\* Only create and edit calls.
NextCreateEdit ==
    \/ \E p \in CreatePayloads : Create(p) /\ Bounded
    \/ \E p \in EditPayloads : Edit(p) /\ Bounded
    \/ Return

SpecCreateEdit == Init /\ [][NextCreateEdit]_vars

\* Calls whose create payloads name no id that is in the graph already, as
\* when every id comes from a distinct timestamp (tools.py).
FreshId(p) ==
    (CarriesDict(p) /\ "id" \in DOMAIN Sent(p)) => Sent(p)["id"] \notin NodeIds(nodes)

NextFresh ==
    \/ \E p \in CreatePayloads : FreshId(p) /\ Create(p) /\ Bounded
    \/ \E p \in EditPayloads : Edit(p) /\ Bounded
    \/ \E p \in StatusPayloads : UpdateStatus(p) /\ Bounded
    \/ \E p \in DeletePayloads : Delete(p) /\ Bounded
    \/ Return

SpecFresh == Init /\ [][NextFresh]_vars

\* The same calls with the inputs that vary the nodes' fields, on graphs of
\* at most MaxAttrNodes nodes with distinct ids.
AttrBounded == Len(nodes') <= MaxAttrNodes /\ Len(links') <= MaxAttrLinks

NextAttr ==
    \/ \E p \in AttrCreatePayloads : FreshId(p) /\ Create(p) /\ AttrBounded
    \/ \E p \in AttrEditPayloads : Edit(p) /\ AttrBounded
    \/ \E p \in AttrStatusPayloads : UpdateStatus(p) /\ AttrBounded
    \/ \E p \in AttrDeletePayloads : Delete(p) /\ AttrBounded
    \/ Return

SpecAttr == Init /\ [][NextAttr]_vars

----------------------------------------------------------------------------
(* A streaming turn (Agent.query_stream).  Two threads share stream_queue, *)
(* agent_done and the turn's GraphData: the reasoning thread               *)
(* (run_react_agent: the driver, its language-model calls and the wrapped  *)
(* tools) and the relay loop of query_stream.  The driver is free to make  *)
(* any call in any order and to end, normally or by raising, between two   *)
(* calls.                                                                  *)

\* What the driver passes to the tools and what the model answers.
ToolNames == {"n1"}
ToolDescriptions == {"d"}
ToolParents == {NoneVal, "a"}
Clock == {"a", "b"}
EditIds == {"a", "b"}
EditNames == {NoneVal, "n2"}
EditParents == {NoneVal, "null", "a"}
LMTexts == {<<>>, <<"t", "e", "x", "t">>}

\* The turn's room: graphs as small as SpecAttr's and at most MaxEvents
\* messages put.
Room ==
    /\ AttrBounded
    /\ Len(put_log') + Len(to_put') <= MaxEvents

\* query_stream up to the start of the loop: the queue and the event are
\* made and the thread is started; run_react_agent makes the wrapped tools.
Start ==
    /\ pc = "start"
    /\ pc' = "loop"
    /\ streaming_tools' = create_streaming_tools
    /\ UNCHANGED <<stream_queue, to_put, put_log, agent_done, agent_error, yielded, live_yielded,
                   response>>
    /\ UNCHANGED graph_vars

\* The reasoning thread is between two calls: run_react_agent has neither
\* stored an exception nor set agent_done.
Reasoning == pc # "start" /\ ~agent_done /\ ~agent_error /\ op = "idle" /\ to_put = <<>>

\* StreamingLM.__call__: the text of a thinking call or of the response is
\* handed to stream_smoothly.
LMCall(is_thinking, text) ==
    /\ Reasoning
    /\ to_put' = stream_smoothly(text, IF is_thinking THEN "thinking" ELSE "token",
                                 chunk_size)
    /\ UNCHANGED <<pc, streaming_tools, stream_queue, put_log, agent_done, agent_error,
                   yielded, live_yielded,
                   response>>
    /\ UNCHANGED graph_vars

\* One turn of stream_smoothly's loop: the next fragment is put.
PutChunk ==
    /\ to_put # <<>>
    /\ stream_queue' = Append(stream_queue, Head(to_put))
    /\ put_log' = Append(put_log, Head(to_put))
    /\ to_put' = Tail(to_put)
    /\ UNCHANGED <<pc, streaming_tools, agent_done, agent_error, yielded, live_yielded,
                   response>>
    /\ UNCHANGED graph_vars

\* wrapped_create_task_node up to the GraphOperations call.
WrappedCreate(task_name, task_description, parent_id, now) ==
    /\ Reasoning
    /\ "create_task_node" \in streaming_tools
    /\ Create(Structured(AsDict(
           tool_create_task_node(task_name, task_description, parent_id, now))))

\* wrapped_edit_task_node up to the GraphOperations call.
WrappedEdit(node_id, name, description, parent_id) ==
    /\ Reasoning
    /\ "edit_task_node" \in streaming_tools
    /\ Edit(Structured(AsDict(tool_edit_task_node(node_id, name, description, parent_id))))

\* As WrappedReturn, but without the test of graph_update: a message is
\* queued for a failed invocation too.
WrappedReturn_PutsAlways ==
    /\ pc # "start"
    /\ op # "idle"
    /\ LET msg == GraphUpdate(ret, nodes, links) IN
           /\ stream_queue' = Append(stream_queue, msg)
           /\ put_log' = Append(put_log, msg)
    /\ op' = "idle"
    /\ arg' = Garbage
    /\ ret' = None
    /\ pnodes' = <<>>
    /\ plinks' = <<>>
    /\ UNCHANGED <<nodes, links>>
    /\ UNCHANGED <<pc, streaming_tools, to_put, agent_done, agent_error, yielded, live_yielded,
                   response>>

\* As WrappedReturn, but an update is not queued while an earlier update is
\* still waiting in the queue.
WrappedReturn_Coalesces ==
    /\ pc # "start"
    /\ op # "idle"
    /\ LET msg == GraphUpdate(ret, nodes, links)
           put == ret # None /\ \A i \in DOMAIN stream_queue :
                                   stream_queue[i].msg_type # "graph_update" IN
           /\ stream_queue' = IF put THEN Append(stream_queue, msg) ELSE stream_queue
           /\ put_log' = IF put THEN Append(put_log, msg) ELSE put_log
    /\ op' = "idle"
    /\ arg' = Garbage
    /\ ret' = None
    /\ pnodes' = <<>>
    /\ plinks' = <<>>
    /\ UNCHANGED <<nodes, links>>
    /\ UNCHANGED <<pc, streaming_tools, to_put, agent_done, agent_error, yielded, live_yielded,
                   response>>

\* The rest of a wrapped tool: a truthy graph_update is queued with a deep
\* copy of the graph, and the tool returns.
WrappedReturn ==
    /\ pc # "start"
    /\ op # "idle"
    /\ LET msg == GraphUpdate(ret, nodes, links) IN
           /\ stream_queue' = IF ret # None THEN Append(stream_queue, msg) ELSE stream_queue
           /\ put_log' = IF ret # None THEN Append(put_log, msg) ELSE put_log
    /\ op' = "idle"
    /\ arg' = Garbage
    /\ ret' = None
    /\ pnodes' = <<>>
    /\ plinks' = <<>>
    /\ UNCHANGED <<nodes, links>>
    /\ UNCHANGED <<pc, streaming_tools, to_put, agent_done, agent_error, yielded, live_yielded,
                   response>>

\* As AgentEnds, but agent_done is set on the normal path only, not in a
\* finally clause.
AgentEnds_NoFinally(raised) ==
    /\ Reasoning
    /\ agent_error' = raised
    /\ agent_done' = ~raised
    /\ UNCHANGED <<pc, streaming_tools, stream_queue, to_put, put_log, yielded, live_yielded,
                   response>>
    /\ UNCHANGED graph_vars

\* run_react_agent ends: the driver returned (agent_result is stored) or
\* raised (agent_error is stored), and finally agent_done is set.
AgentEnds(raised) ==
    /\ Reasoning
    /\ agent_error' = raised
    /\ agent_done' = TRUE
    /\ UNCHANGED <<pc, streaming_tools, stream_queue, to_put, put_log, yielded, live_yielded,
                   response>>
    /\ UNCHANGED graph_vars

\* The condition of query_stream's while loop.
KeepStreaming_UntilDone == ~agent_done

\* A loop that goes on only while the queue holds a message.
KeepStreaming_QueueOnly == stream_queue # <<>>

KeepStreaming == ~agent_done \/ stream_queue # <<>>

\* The while test of the relay loop.
RelayTest ==
    /\ pc = "loop"
    /\ pc' = IF KeepStreaming THEN "get" ELSE "final"
    /\ UNCHANGED <<streaming_tools, stream_queue, to_put, put_log, agent_done,
                   agent_error, yielded, live_yielded,
                   response>>
    /\ UNCHANGED graph_vars

\* As RelayGet, but the newest message of the queue is taken.
RelayGet_TakesNewest ==
    /\ pc = "get"
    /\ stream_queue # <<>>
    /\ yielded' = Append(yielded, Yield(stream_queue[Len(stream_queue)]))
    /\ stream_queue' = SubSeq(stream_queue, 1, Len(stream_queue) - 1)
    /\ response' = Append(response, SSE(Yield(stream_queue[Len(stream_queue)])))
    /\ pc' = "loop"
    /\ UNCHANGED <<streaming_tools, to_put, put_log, agent_done, agent_error, live_yielded>>
    /\ UNCHANGED graph_vars

\* As RelayGet, but the relay also writes the snapshot of a graph_update
\* back to the turn's graph_data.
RelayGet_WritesBack ==
    /\ pc = "get"
    /\ stream_queue # <<>>
    /\ yielded' = Append(yielded, Yield(Head(stream_queue)))
    /\ stream_queue' = Tail(stream_queue)
    /\ response' = Append(response, SSE(Yield(Head(stream_queue))))
    /\ pc' = "loop"
    /\ nodes' = IF Head(stream_queue).msg_type = "graph_update"
                THEN Head(stream_queue).content.graph_data.nodes
                ELSE nodes
    /\ UNCHANGED <<streaming_tools, to_put, put_log, agent_done, agent_error, live_yielded>>
    /\ UNCHANGED <<links, op, arg, ret, pnodes, plinks>>

\* stream_queue.get(timeout): the head of the queue is taken and yielded.
RelayGet ==
    /\ pc = "get"
    /\ stream_queue # <<>>
    /\ yielded' = Append(yielded, Yield(Head(stream_queue)))
    /\ stream_queue' = Tail(stream_queue)
    /\ response' = Append(response, SSE(Yield(Head(stream_queue))))
    /\ pc' = "loop"
    /\ UNCHANGED <<streaming_tools, to_put, put_log, agent_done, agent_error, live_yielded>>
    /\ UNCHANGED graph_vars

\* stream_queue.get(timeout) times out on an empty queue (queue.Empty); the
\* loop sleeps and tests again.
RelayEmpty ==
    /\ pc = "get"
    /\ stream_queue = <<>>
    /\ pc' = "loop"
    /\ UNCHANGED <<streaming_tools, stream_queue, to_put, put_log, agent_done,
                   agent_error, yielded, live_yielded,
                   response>>
    /\ UNCHANGED graph_vars

\* After the loop: the final graph update, the live graph_data.
RelayFinal ==
    /\ pc = "final"
    /\ yielded' = Append(yielded, [type |-> "graph_update",
                                    graph_data |-> [nodes |-> nodes, links |-> links]])
    /\ live_yielded' = live_yielded \cup {Len(yielded) + 1}
    /\ response' = Append(response, SSE([type |-> "graph_update",
                                          graph_data |-> [nodes |-> nodes, links |-> links]]))
    /\ pc' = "end"
    /\ UNCHANGED <<streaming_tools, stream_queue, to_put, put_log, agent_done, agent_error>>
    /\ UNCHANGED graph_vars

\* agent_thread.start() raises (no thread can be started): the except
\* clause of query_stream yields the error text and the generator ends.
StartFails ==
    /\ pc = "start"
    /\ yielded' = Append(yielded, ErrorToken)
    /\ response' = Append(response, SSE(ErrorToken))
    /\ pc' = "failed"
    /\ UNCHANGED <<streaming_tools, stream_queue, to_put, put_log, agent_done, agent_error,
                   live_yielded>>
    /\ UNCHANGED graph_vars

\* generate_streaming_response after query_stream has ended: the done
\* signal.
StreamDone ==
    /\ pc \in {"end", "failed"}
    /\ response' = Append(response, SSE([type |-> "done"]))
    /\ pc' = "closed"
    /\ UNCHANGED <<streaming_tools, stream_queue, to_put, put_log, agent_done, agent_error,
                   yielded, live_yielded>>
    /\ UNCHANGED graph_vars

NextStream ==
    \/ Start
    \/ \E is_thinking \in BOOLEAN, text \in LMTexts : LMCall(is_thinking, text) /\ Room
    \/ PutChunk
    \/ \E task_name \in ToolNames, task_description \in ToolDescriptions,
          parent_id \in ToolParents, now \in Clock :
           WrappedCreate(task_name, task_description, parent_id, now) /\ Room
    \/ \E node_id \in EditIds, name \in EditNames, parent_id \in EditParents :
           WrappedEdit(node_id, name, NoneVal, parent_id) /\ Room
    \/ WrappedReturn
    \/ \E raised \in BOOLEAN : AgentEnds(raised)
    \/ RelayTest
    \/ RelayGet
    \/ RelayEmpty
    \/ RelayFinal
    \/ StartFails
    \/ StreamDone

SpecStream == Init /\ [][NextStream]_vars

\* The steps of the relay: query_stream and, after it, the done signal of
\* generate_streaming_response.
Relay ==
    Start \/ StartFails \/ RelayTest \/ RelayGet \/ RelayEmpty \/ RelayFinal \/ StreamDone

\* The steps the reasoning thread takes of its own once it is inside a
\* call: the puts of stream_smoothly and the rest of a wrapped tool.
InCall == PutChunk \/ WrappedReturn

\* The same turn under fair scheduling: the event loop keeps running the
\* relay, the reasoning thread keeps running the call it is in, and the
\* driver, which takes at most MAX_ITERS rounds, returns or raises.
SpecStreamFair ==
    /\ Init
    /\ [][NextStream]_vars
    /\ WF_vars(Relay)
    /\ WF_vars(InCall)
    /\ SF_vars(\E raised \in BOOLEAN : AgentEnds(raised))

----------------------------------------------------------------------------
(* The four methods on every kind of payload parse_tool_result tells       *)
(* apart, the texts that make a parser return None or raise among them.    *)

ParseValues ==
    [id |-> {"a", "b"}, name |-> {"n1"}, description |-> {"d"},
     parent_id |-> {NoneVal, "a"}, status |-> {"notStarted", "bogus"}]

OddTexts == {Unhashable, TooDeep, JsonNull, NoneLiteral}

\* The payloads of Payloads(bodies), the odd texts, and the texts that read
\* as one body to json.loads and as another to ast.literal_eval.
ParsePayloads(bodies) ==
    Payloads(bodies) \cup OddTexts
        \cup {TwoReadings(de[1], de[2]) : de \in {x \in bodies \X bodies : x[1] # x[2]}}

NextParse ==
    \/ \E p \in ParsePayloads(CreateBodies(ParseValues)) :
           FreshId(p) /\ Create(p) /\ AttrBounded
    \/ \E p \in ParsePayloads(EditBodies(ParseValues)) : Edit(p) /\ AttrBounded
    \/ \E p \in ParsePayloads(StatusBodies(ParseValues)) : UpdateStatus(p) /\ AttrBounded
    \/ \E p \in ParsePayloads(DeleteBodies(ParseValues)) : Delete(p) /\ AttrBounded
    \/ Return

SpecParse == Init /\ [][NextParse]_vars

----------------------------------------------------------------------------
(* delete_task_node on the graph of a request, whatever its links: three   *)
(* nodes and any sequence of at most MaxTreeLinks links between them,      *)
(* self-links, cycles and repeated links included.                         *)

TreeIds == <<"r", "x", "y">>
TreeNodes ==
    [i \in DOMAIN TreeIds |->
        [id |-> TreeIds[i], name |-> "n1", description |-> "d", status |-> "notStarted"]]
AnyLinks ==
    UNION {[1..n -> {Link(s, t) : s \in Range(TreeIds), t \in Range(TreeIds)}] :
               n \in 0..MaxTreeLinks}

InitTree ==
    /\ nodes = TreeNodes
    /\ links \in AnyLinks
    /\ Idle
    /\ NoTurn

NextTree ==
    \/ \E id \in Range(TreeIds) : Delete(Structured(AsDict([id |-> id])))
    \/ Return

SpecTree == InitTree /\ [][NextTree]_vars

----------------------------------------------------------------------------
(* POST /api/chat, the endpoint without streaming.  The request body is    *)
(* validated into the models of main.py before chat runs; chat dumps the   *)
(* graph into a dict, hands it to Agent.query, whose driver has the tools  *)
(* of tools.py themselves, and builds the graph of the response from the   *)
(* same dict.  During the call nodes and links are graph['nodes'] and      *)
(* graph['links'], pnodes and plinks the lists of request.graph, arg the   *)
(* value the driver's last tool call returned.                             *)

\* An object of a pydantic model, and its model_dump().
Model(cls, fields) == [cls |-> cls, fields |-> fields]
model_dump(o) == o.fields

\* A link end as a request body carries it: a string, or a dict (a node
\* object of the client's graph library).
StrEnd(id) == [kind |-> "str", v |-> id]
DictEnd(d) == AsDict(d)

\* Link.extract_id_from_node: the id of a dict that has one.
extract_id_from_node(v) ==
    IF IsDict(v) /\ "id" \in DOMAIN v.d THEN StrEnd(v.d.id) ELSE v

\* Node(**d): status is None when d has none; other keys are kept.
Node(d) ==
    Model("Node", [k \in DOMAIN d \cup {"status"} |->
                      IF k \in DOMAIN d THEN d[k] ELSE NoneVal])

\* Link(**d): the validator runs on source and target.
LinkModel(d) ==
    Model("Link", [k \in DOMAIN d |->
                      IF k \in {"source", "target"} THEN extract_id_from_node(d[k])
                      ELSE d[k]])

GraphData(N, L) == Model("GraphData", [nodes |-> N, links |-> L])
ChatResponse(message_response, graph_data) ==
    Model("ChatResponse", [message_response |-> message_response,
                           graph_data |-> graph_data])

\* The GraphData a request body is validated into.
ValidGraph(body) ==
    GraphData([i \in DOMAIN body.nodes |-> Node(body.nodes[i])],
              [i \in DOMAIN body.links |-> LinkModel(body.links[i])])

parse_graph_data(graph_data) ==
    [nodes |-> [i \in DOMAIN graph_data.fields.nodes |->
                   model_dump(graph_data.fields.nodes[i])],
     links |-> [i \in DOMAIN graph_data.fields.links |->
                   model_dump(graph_data.fields.links[i])]]

\* The graphs of the request bodies: nodes with and without a status, link
\* ends given as ids and as node objects, one of them without an id.
BodyNodes ==
    {[id |-> i, name |-> "n1", description |-> "d"] : i \in {"a", "b"}}
    \cup {[id |-> i, name |-> "n1", description |-> "d", status |-> "notStarted"] :
              i \in {"a", "b"}}
BodyEnds(i) == {StrEnd(i), DictEnd([id |-> i, name |-> "n1"])}
BodyLinks ==
    {Link(s, t) : s \in BodyEnds("a") \cup BodyEnds("b") \cup {DictEnd([name |-> "n1"])},
                  t \in BodyEnds("b")}
Bodies ==
    {[nodes |-> N, links |-> L] :
        N \in UNION {[1..n -> BodyNodes] : n \in 0..MaxReqNodes},
        L \in UNION {[1..n -> BodyLinks] : n \in 0..MaxReqLinks}}

\* What a tool of tools.py returns to the driver.
ToolResults(name) ==
    CASE name = "create_task_node" ->
             {AsDict(tool_create_task_node("n1", "d", parent, "c")) :
                 parent \in {NoneVal, "a"}}
      [] name = "edit_task_node" ->
             {AsDict(tool_edit_task_node("a", "n2", NoneVal, parent)) :
                 parent \in {NoneVal, "null", "b"}}
      [] name = "update_task_status" ->
             {AsDict(tool_update_task_status("a", "completed"))}
      [] name = "delete_task_node" -> {AsDict(tool_delete_task_node("a"))}
      [] name = "finish" -> {tool_finish}

\* chat up to the call of agent.query.
ChatStart(body) ==
    /\ pc = "start"
    /\ op = "idle"
    /\ LET request_graph == ValidGraph(body)
           graph == parse_graph_data(request_graph)
       IN  /\ nodes' = graph.nodes
           /\ links' = graph.links
           /\ pnodes' = request_graph.fields.nodes
           /\ plinks' = request_graph.fields.links
    /\ op' = "chat"
    /\ pc' = "driver"
    /\ UNCHANGED <<arg, ret>>
    /\ UNCHANGED <<streaming_tools, stream_queue, to_put, put_log, agent_done, agent_error,
                   yielded, live_yielded, response>>

\* The driver of Agent.query calls a tool: the tool builds its value and
\* the driver keeps it in its trajectory.
QueryTool_Applies(name, result) ==
    /\ pc = "driver"
    /\ name \in tools
    /\ arg' = Structured(result)
    /\ nodes' = IF name = "create_task_node"
                THEN create_task_node(Structured(result), nodes, <<>>).nodes
                ELSE nodes
    /\ UNCHANGED <<links, op, ret, pnodes, plinks>>
    /\ UNCHANGED stream_vars

QueryTool(name, result) ==
    /\ pc = "driver"
    /\ name \in tools
    /\ arg' = Structured(result)
    /\ UNCHANGED <<nodes, links, op, ret, pnodes, plinks>>
    /\ UNCHANGED stream_vars

\* agent.query returns and chat returns the response.
ChatReturn ==
    /\ pc = "driver"
    /\ pc' = "closed"
    /\ response' =
           <<ChatResponse("text",
                          GraphData([i \in DOMAIN nodes |-> Node(nodes[i])],
                                    [i \in DOMAIN links |-> LinkModel(links[i])]))>>
    /\ UNCHANGED graph_vars
    /\ UNCHANGED <<streaming_tools, stream_queue, to_put, put_log, agent_done, agent_error,
                   yielded, live_yielded>>

\* The driver raises: chat raises with it and returns nothing.
ChatFails ==
    /\ pc = "driver"
    /\ pc' = "failed"
    /\ UNCHANGED graph_vars
    /\ UNCHANGED <<streaming_tools, stream_queue, to_put, put_log, agent_done, agent_error,
                   yielded, live_yielded, response>>

NextQuery ==
    \/ \E body \in Bodies : ChatStart(body)
    \/ \E name \in tools : \E result \in ToolResults(name) : QueryTool(name, result)
    \/ ChatReturn
    \/ ChatFails

SpecQuery == Init /\ [][NextQuery]_vars

----------------------------------------------------------------------------
(* StreamingLM.stream_smoothly alone: one call, with any text of at most   *)
(* MaxText characters and either message type, on an empty queue.          *)

Alphabet == {"a", "b"}
SmoothTexts == UNION {[1..n -> Alphabet] : n \in 0..MaxText}
MsgTypes == {"thinking", "token"}

\* stream_smoothly is called: the fragments its loop will put.
SmoothCall(text, msg_type) ==
    /\ op = "idle"
    /\ put_log = <<>>
    /\ op' = "stream_smoothly"
    /\ arg' = [text |-> text, msg_type |-> msg_type]
    /\ to_put' = stream_smoothly(text, msg_type, chunk_size)
    /\ UNCHANGED <<nodes, links, ret, pnodes, plinks>>
    /\ UNCHANGED <<pc, streaming_tools, stream_queue, put_log, agent_done, agent_error,
                   yielded, live_yielded, response>>

NextSmooth ==
    \/ \E text \in SmoothTexts, msg_type \in MsgTypes : SmoothCall(text, msg_type)
    \/ PutChunk

SpecSmooth == Init /\ [][NextSmooth]_vars

----------------------------------------------------------------------------
(* What the properties below talk about. *)

Succeeded == op # "idle" /\ ret # None
Failed == op # "idle" /\ ret = None

Incoming(L, t) == {i \in DOMAIN L : L[i].target = t}
Outgoing(L, s) == {i \in DOMAIN L : L[i].source = s}
Children(L, s) == {L[i].target : i \in Outgoing(L, s)}
Parents(L, t) == {L[i].source : i \in Incoming(L, t)}
Touches(link, ids) == link.source \in ids \/ link.target \in ids
Count(L, link) == Cardinality({i \in DOMAIN L : L[i] = link})

\* The ids reachable from id along the links of L (id included).
RECURSIVE ReachFrom(_, _)
ReachFrom(S, L) ==
    LET T == S \cup UNION {Children(L, x) : x \in S}
    IN  IF T = S THEN S ELSE ReachFrom(T, L)
Reachable(L, id) == ReachFrom({id}, L)

\* s without its first n elements.
Drop(s, n) == SubSeq(s, n + 1, Len(s))

----------------------------------------------------------------------------
(* C1: single-parent invariant under create and edit.                      *)

\* C1: after any sequence of create_task_node and edit_task_node calls
\* (any ids, ids that already exist included), no node id is the target of
\* more than one link.
C1_SingleParent ==
    \A t \in NodeIds(nodes) \cup {l.target : l \in Range(links)} :
        Cardinality(Incoming(links, t)) <= 1

----------------------------------------------------------------------------
(* C2: no link references a deleted id.                                    *)

\* C2: after a successful delete_task_node(id), in any state create, edit,
\* update_status and delete can reach, no link has id as its source or as
\* its target.
C2_NoLinkToDeleted ==
    (op = "delete" /\ Succeeded) =>
        \A i \in DOMAIN links : ~Touches(links[i], {ret.id})

----------------------------------------------------------------------------
(* C3: deleting a node that has a parent.                                  *)

\* What C3 says of a delete of B whose parent is P.
ReparentedTo(P, B) ==
    LET kept == SelectSeq(plinks, LAMBDA link : ~Touches(link, {B}))
        added == Drop(links, Len(kept))
        children == Children(plinks, B)
    IN  /\ nodes = SelectSeq(pnodes, LAMBDA node : node.id # B)
        /\ ret.deleted_nodes = <<B>>
        /\ \A i \in DOMAIN links : ~Touches(links[i], {B})
        /\ Len(links) >= Len(kept)
        /\ SubSeq(links, 1, Len(kept)) = kept
        /\ Range(added) = {Link(P, C) : C \in children}
        /\ \A C \in children : Count(added, Link(P, C)) = 1
        /\ ret.reconnected_children = Cardinality(children)
        /\ Reachable(plinks, B) \ {B} \subseteq NodeIds(nodes)

\* C3: deleting a node B that has a parent P removes exactly B from nodes
\* (deleted_nodes is [B]), removes every link with B as source or target,
\* adds exactly one link P -> C for every former child C of B, returns the
\* number of former children as reconnected_children, and keeps every
\* descendant of B in the graph.
C3_DeleteReparent ==
    (op = "delete" /\ Succeeded /\ Parents(plinks, ret.id) # {}) =>
        \E P \in Parents(plinks, ret.id) : ReparentedTo(P, ret.id)

----------------------------------------------------------------------------
(* C4: deleting a root.                                                    *)

\* C4: deleting a node R that has no incoming link removes R and every
\* node reachable from R along links, removes every link whose source or
\* target is a removed node, leaves every other node and link in place, and
\* returns cascade_deleted equal to the number of removed nodes, with
\* deleted_nodes listing exactly their ids.
C4_DeleteCascade ==
    (op = "delete" /\ Succeeded /\ Parents(plinks, ret.id) = {}) =>
        LET gone == Reachable(plinks, ret.id)
            removed == {i \in DOMAIN pnodes : pnodes[i].id \in gone}
        IN  /\ nodes = SelectSeq(pnodes, LAMBDA node : node.id \notin gone)
            /\ links = SelectSeq(plinks, LAMBDA link : ~Touches(link, gone))
            /\ ret.cascade_deleted = Cardinality({pnodes[i].id : i \in removed})
            /\ Range(ret.deleted_nodes) = {pnodes[i].id : i \in removed}
            /\ Len(ret.deleted_nodes) = Cardinality(Range(ret.deleted_nodes))

----------------------------------------------------------------------------
(* C5: a failed call changes nothing.                                      *)

\* A payload the method can read: a dict, or a text without "error" in it
\* that parses to a dict.
Readable(p) == CarriesDict(p) /\ ~(p.shape = "str" /\ p.err)

\* C5: every create, edit, update_status and delete call returns either a
\* change descriptor (of that action) or None, and whenever it returns None
\* the nodes and links are exactly what they were before the call.
C5_FailureChangesNothing ==
    op # "idle" =>
        \/ ret = None /\ nodes = pnodes /\ links = plinks
        \/ ret # None /\ ret.action = op

\* A call on a non-empty graph, with a payload that is a readable dict, has
\* returned None.
C5_Witness ==
    /\ Failed
    /\ Readable(arg)
    /\ pnodes # <<>>
    /\ plinks # <<>>

----------------------------------------------------------------------------
(* C6: calls on an id that is not in the graph.                            *)

MissingId(p) ==
    Readable(p) /\ "id" \in DOMAIN Sent(p) /\ Sent(p)["id"] \notin NodeIds(pnodes)

\* C6: edit, update_status and delete on an id that is not in nodes return
\* None and change nothing; and after a successful delete(id) a further
\* delete(id) returns None and changes nothing (so does any number of them,
\* the graph being the same after each).
C6_MissingIdIsNoOp ==
    /\ (op \in {"edit", "update_status", "delete"} /\ MissingId(arg)) =>
           ret = None /\ nodes = pnodes /\ links = plinks
    /\ (op = "delete" /\ Succeeded) =>
           /\ ret.id \notin NodeIds(nodes)
           /\ delete_task_node(arg, nodes, links) =
                  [ret |-> None, nodes |-> nodes, links |-> links]

\* A delete of an id that is not in a non-empty graph has returned.
C6_Witness ==
    /\ op = "delete"
    /\ MissingId(arg)
    /\ ret = None
    /\ pnodes # <<>>
    /\ plinks # <<>>

----------------------------------------------------------------------------
(* C7, C8: create.                                                         *)

\* The node a create payload d asks for.
Asked(d) == [id |-> d["id"], name |-> d["name"], description |-> d["description"],
             status |-> "notStarted"]

CreateBody(p) ==
    Readable(p) /\ {"id", "name", "description"} \subseteq DOMAIN Sent(p)

\* C7: create with a parent_id that does not resolve to an existing node
\* still succeeds: exactly one node is appended, no link is added, and a
\* create descriptor, not None, is returned.
C7_UnresolvedParent ==
    (/\ op = "create"
     /\ CreateBody(arg)
     /\ "parent_id" \in DOMAIN Sent(arg)
     /\ Sent(arg)["parent_id"] \notin NodeIds(pnodes)) =>
        /\ nodes = Append(pnodes, Asked(Sent(arg)))
        /\ links = plinks
        /\ ret = [action |-> "create", id |-> Sent(arg)["id"], name |-> Sent(arg)["name"]]

\* A create that names a parent which is not in the (non-empty) graph has
\* returned.
C7_Witness ==
    /\ op = "create"
    /\ CreateBody(arg)
    /\ "parent_id" \in DOMAIN Sent(arg)
    /\ Sent(arg)["parent_id"] \notin NodeIds(pnodes) \cup {NoneVal}
    /\ pnodes # <<>>
    /\ plinks # <<>>

\* C8: a successful create appends exactly one node, with status
\* notStarted, at the end of nodes, adds exactly one link parent_id -> id
\* iff parent_id is given and resolves to an existing node (otherwise adds
\* no link), changes no existing node, and returns {action: create, id,
\* name}.
C8_CreateEffect ==
    (op = "create" /\ Succeeded) =>
        LET d == Sent(arg)
            resolves == /\ "parent_id" \in DOMAIN d
                        /\ d["parent_id"] # NoneVal
                        /\ d["parent_id"] \in NodeIds(pnodes)
        IN  /\ nodes = Append(pnodes, Asked(d))
            /\ links = IF resolves
                       THEN Append(plinks, Link(d["parent_id"], d["id"]))
                       ELSE plinks
            /\ ret = [action |-> "create", id |-> d["id"], name |-> d["name"]]

----------------------------------------------------------------------------
(* C9, C10: edit.                                                          *)

\* C9: edit with the parent_id field present (even with a null value)
\* removes every link whose target is the edited node, then adds exactly
\* one link new_parent -> id iff new_parent is non-null and resolves to an
\* existing node; edit with the parent_id field absent leaves the links
\* unchanged.
C9_EditParent ==
    (op = "edit" /\ Succeeded) =>
        LET d == Sent(arg)
            others == SelectSeq(plinks, LAMBDA link : link.target # d["id"])
        IN  IF "parent_id" \notin DOMAIN d
            THEN links = plinks
            ELSE IF d["parent_id"] # NoneVal /\ d["parent_id"] \in NodeIds(pnodes)
                 THEN links = Append(others, Link(d["parent_id"], d["id"]))
                 ELSE links = others

\* C10: edit never clears a node's name: when the name field is absent,
\* empty or None the node keeps its previous name; a non-empty name
\* overwrites it.
C10_EditName ==
    (op = "edit" /\ Succeeded) =>
        LET d == Sent(arg)
            i == CHOOSE k \in DOMAIN pnodes :
                     pnodes[k].id = d["id"] /\ \A j \in 1..(k - 1) : pnodes[j].id # d["id"]
        IN  nodes[i].name =
                IF "name" \in DOMAIN d /\ d["name"] \notin {"", NoneVal}
                THEN d["name"]
                ELSE pnodes[i].name

\* An edit whose name is empty or None has returned and the node has its
\* name.
C10_Witness ==
    /\ op = "edit"
    /\ Succeeded
    /\ "name" \in DOMAIN Sent(arg)
    /\ Sent(arg)["name"] \in {"", NoneVal}
    /\ ret.name = "n2"

----------------------------------------------------------------------------
(* C11: edit and the description.                                          *)

\* The index of the first node of N whose id is id (for an id N holds).
IndexOf(N, id) ==
    CHOOSE k \in DOMAIN N : N[k].id = id /\ \A j \in 1..(k - 1) : N[j].id # id

\* C11: an edit whose description is the empty string sets the node's
\* description to the empty string; an edit with no description field, or
\* with a None description, leaves the stored description as it was.
C11_EditDescription ==
    (op = "edit" /\ Succeeded) =>
        LET d == Sent(arg)
            i == IndexOf(pnodes, d["id"])
        IN  /\ ("description" \in DOMAIN d /\ d["description"] = "") =>
                   nodes[i].description = ""
            /\ ("description" \notin DOMAIN d \/ d["description"] = NoneVal) =>
                   nodes[i].description = pnodes[i].description

\* An edit with description "" of a node whose description was not empty
\* has returned.
C11_Witness ==
    /\ op = "edit"
    /\ Succeeded
    /\ "description" \in DOMAIN Sent(arg)
    /\ Sent(arg)["description"] = ""
    /\ pnodes[IndexOf(pnodes, ret.id)].description = "d"

----------------------------------------------------------------------------
(* C12, C13: update_status.                                                *)

StatusBody(p) == Readable(p) /\ {"id", "status"} \subseteq DOMAIN Sent(p)

\* C12: update_status with a status that is none of notStarted, inProgress
\* and completed returns None and leaves the nodes (their status included)
\* and the links as they were; so a node that update_status brought to
\* completed is still completed after update_status(id, bogus).
C12_BadStatusRejected ==
    (/\ op = "update_status"
     /\ StatusBody(arg)
     /\ Sent(arg)["status"] \notin {"notStarted", "inProgress", "completed"}) =>
        /\ ret = None
        /\ nodes = pnodes
        /\ links = plinks

\* update_status(id, bogus) has returned for a node that is completed.
C12_Witness ==
    /\ op = "update_status"
    /\ StatusBody(arg)
    /\ Sent(arg)["status"] = "bogus"
    /\ Sent(arg)["id"] \in NodeIds(pnodes)
    /\ pnodes[IndexOf(pnodes, Sent(arg)["id"])].status = "completed"
    /\ nodes[IndexOf(nodes, Sent(arg)["id"])].status = "completed"

\* C13: a successful update_status(id, s) leaves the node with status s
\* whatever its status was, and returns old_status = the status the node
\* had when the call started and new_status = s.
C13_StatusWritten ==
    (op = "update_status" /\ Succeeded) =>
        LET d == Sent(arg)
            i == IndexOf(pnodes, d["id"])
        IN  /\ nodes[i].status = d["status"]
            /\ ret.old_status = pnodes[i].status
            /\ ret.new_status = d["status"]
            /\ ret.action = "update_status"
            /\ ret.id = d["id"]
            /\ ret.name = pnodes[i].name

\* An update_status has taken a node from completed back to notStarted.
C13_Witness ==
    /\ op = "update_status"
    /\ Succeeded
    /\ ret.old_status = "completed"
    /\ ret.new_status = "notStarted"

----------------------------------------------------------------------------
(* C14: the description of a stored node.                                  *)

\* C14: in every state create, edit, update_status and delete can reach,
\* the description of every node is a string, never None.
C14_DescriptionIsString ==
    \A i \in DOMAIN nodes : nodes[i].description # NoneVal

----------------------------------------------------------------------------
(* C15, C16, C17: the shape of the graph.                                  *)

\* C15: in every state create, edit, update_status and delete can reach
\* from the empty graph, creates of an id that exists included, no two
\* nodes have the same id.
C15_UniqueIds ==
    \A i, j \in DOMAIN nodes : nodes[i].id = nodes[j].id => i = j

\* The ids a link of L names.
Ends(L) == {L[i].source : i \in DOMAIN L} \cup {L[i].target : i \in DOMAIN L}

\* C16: in every state the four operations can reach, with every create
\* using a new id, the links are acyclic: no link has source = target and
\* no id is reachable from one of its children.
C16_Forest ==
    \A x \in Ends(links) : x \notin ReachFrom(Children(links, x), links)

\* C17: in every state the four operations can reach, with every create
\* using a new id, the source and the target of every link are ids of
\* nodes of the graph.
C17_NoDanglingLink ==
    Ends(links) \subseteq NodeIds(nodes)

----------------------------------------------------------------------------
(* C18, C19, C20: a streaming turn.                                        *)

\* The positions of s that hold a value with property P.
Where(s, P(_)) == {i \in DOMAIN s : P(s[i])}

IsGraphUpdate(e) == e.type = "graph_update"
IsUpdateMessage(m) == m.msg_type = "graph_update"

\* The graph updates yielded for tool invocations: every one but the final
\* one, which is the last event of a turn that has ended.
Intermediate ==
    Where(yielded, IsGraphUpdate) \ (IF pc \in {"end", "closed"} THEN {Len(yielded)} ELSE {})

\* C18: every tool invocation that returned a change descriptor has, by
\* the end of the turn, been delivered to the consumer as exactly one
\* graph_update event, and every such event holds the change descriptor
\* (action) and a graph snapshot (graph_data).
C18_UpdatePerMutation ==
    /\ \A i \in Intermediate : {"action", "graph_data"} \subseteq DOMAIN yielded[i]
    /\ pc = "end" =>
           Cardinality(Intermediate) = Cardinality(Where(put_log, IsUpdateMessage))

\* C19: the driver of a streaming turn is given each of the five tools of
\* tools.py, update_task_status and delete_task_node among them.
C19_FiveTools ==
    pc # "start" =>
        {"create_task_node", "edit_task_node", "update_task_status",
         "delete_task_node", "finish"} \subseteq streaming_tools

\* C20: when the turn has ended, whether the driver returned or raised,
\* the last event yielded is a graph_update carrying the whole current
\* graph, it is the only graph_update beyond those of the tool
\* invocations, and every message put on the queue was yielded before it.
C20_FinalUpdate ==
    pc = "end" =>
        /\ agent_done
        /\ stream_queue = <<>>
        /\ to_put = <<>>
        /\ Len(yielded) = Len(put_log) + 1
        /\ yielded[Len(yielded)] =
               [type |-> "graph_update", graph_data |-> [nodes |-> nodes, links |-> links]]
        /\ Cardinality(Where(yielded, IsGraphUpdate)) =
               Cardinality(Where(put_log, IsUpdateMessage)) + 1

\* A turn whose driver raised, after a tool invocation changed the graph
\* and text was streamed, has ended.
C20_Witness ==
    /\ pc = "end"
    /\ agent_error
    /\ nodes # <<>>
    /\ Where(put_log, IsUpdateMessage) # {}
    /\ \E i \in DOMAIN yielded : yielded[i].type = "token"

\* The error texts among the events yielded.
ErrorTexts == {i \in DOMAIN yielded : yielded[i] = ErrorToken}

\* C21: when the driver has raised during a streaming turn, the consumer
\* has, by the end of the turn, received exactly one error text fragment,
\* and the last event is the final graph snapshot.
C21_DriverErrorSurfaced ==
    (pc \in {"end", "closed"} /\ agent_error) =>
        /\ Cardinality(ErrorTexts) = 1
        /\ yielded[Len(yielded)] =
               [type |-> "graph_update", graph_data |-> [nodes |-> nodes, links |-> links]]

\* The number of messages the relay has taken off the queue.
Taken == Len(put_log) - Len(stream_queue)

\* C22: at every moment of every interleaving, the events delivered from
\* the queue are the first messages put on it, one event per message, in
\* the order of the puts, and the queue holds the rest in that order; the
\* only event beyond them is the one that ends the turn.
C22_Fifo ==
    /\ Taken \in 0..Len(yielded)
    /\ Len(yielded) <= Taken + 1
    /\ \A i \in 1..Taken : yielded[i] = Yield(put_log[i])
    /\ stream_queue = SubSeq(put_log, Taken + 1, Len(put_log))
    /\ Len(yielded) = Taken + 1 => pc \in {"end", "failed", "closed"}

\* An update and then the first fragment of the response were delivered,
\* in the order of their puts, while the second fragment waits in the
\* queue.
C22_Witness ==
    /\ Len(yielded) = 2
    /\ yielded[1].type = "graph_update"
    /\ yielded[2].type = "token"
    /\ yielded[2].content = <<"t", "e", "x">>
    /\ stream_queue = <<[msg_type |-> "token", content |-> <<"t">>]>>

\* C23: every wrapped tool that returns with a change descriptor puts one
\* graph_update message, and when the turn has ended the consumer has been
\* sent at least one graph_update per such message and one more, the last
\* event, whose nodes and links are those of the graph as the driver left
\* it.
C23_Completeness ==
    /\ [][(op # "idle" /\ ret # None /\ op' = "idle") =>
              /\ put_log' = Append(put_log, GraphUpdate(ret, nodes', links'))
              /\ stream_queue' = Append(stream_queue, GraphUpdate(ret, nodes', links'))]_vars
    /\ [](pc = "end" =>
              /\ Cardinality(Where(yielded, IsGraphUpdate) \ {Len(yielded)}) >=
                     Cardinality(Where(put_log, IsUpdateMessage))
              /\ IsGraphUpdate(yielded[Len(yielded)])
              /\ yielded[Len(yielded)].graph_data.nodes = nodes
              /\ yielded[Len(yielded)].graph_data.links = links)

\* A turn with two successful mutations has ended.
C23_Witness ==
    /\ pc = "end"
    /\ Len(nodes) = 2
    /\ Cardinality(Where(put_log, IsUpdateMessage)) = 2

\* C24: no graph snapshot handed to the consumer is the live graph_data
\* object.
C24_DeepCopies ==
    \A i \in Where(yielded, IsGraphUpdate) : i \notin live_yielded

\* C25: under fair scheduling, once the relay loop runs it is left with
\* agent_done set and the queue drained, the final event is emitted, and
\* the response is closed.
C25_Terminates ==
    /\ (pc = "loop") ~> (pc = "end" /\ agent_done /\ stream_queue = <<>>
                            /\ IsGraphUpdate(yielded[Len(yielded)]))
    /\ (pc = "end") ~> (pc = "closed")

\* A turn whose driver raised after streaming has been closed.
C25_Witness ==
    /\ pc = "closed"
    /\ agent_error
    /\ put_log # <<>>
    /\ live_yielded # {}

\* C27: a wrapped tool whose invocation returned no change descriptor
\* returns to the driver with nothing queued and the graph as it was before
\* the call, and the reasoning thread is again between two calls, free to
\* make the next one.
C27_FailedCallGoesOn ==
    [][(op # "idle" /\ ret = None /\ op' = "idle") =>
          /\ nodes = pnodes /\ links = plinks
          /\ nodes' = nodes /\ links' = links
          /\ put_log' = put_log
          /\ stream_queue' = stream_queue
          /\ yielded' = yielded
          /\ ~agent_done' /\ ~agent_error' /\ to_put' = <<>> /\ pc' # "start"]_vars

\* An edit failed after an earlier invocation of the same turn had changed
\* the graph and been streamed.
C27_Witness ==
    /\ op = "edit"
    /\ ret = None
    /\ nodes # <<>>
    /\ Where(put_log, IsUpdateMessage) # {}

\* C28: a response that has been closed ends with the final graph_update
\* followed by the done marker, and holds the done marker once.
C28_FinalThenDone ==
    pc = "closed" =>
        /\ Len(response) >= 2
        /\ response[Len(response)] = SSE([type |-> "done"])
        /\ response[Len(response) - 1] =
               SSE([type |-> "graph_update", graph_data |-> [nodes |-> nodes, links |-> links]])
        /\ Cardinality({i \in DOMAIN response : response[i] = SSE([type |-> "done"])}) = 1

\* The texts of a sequence of messages, one after the other.
RECURSIVE Concat(_)
Concat(msgs) == IF msgs = <<>> THEN <<>> ELSE Head(msgs).content \o Concat(Tail(msgs))

\* C26: when the loop of stream_smoothly(text, msg_type) is over, the queue
\* holds ceil(len(text)/3) fragments of type msg_type, in the order they
\* were put, each of 3 characters but the last, which has 1 to 3, and
\* together they spell text; for the empty text the queue holds nothing.
C26_Chunks ==
    (op = "stream_smoothly" /\ to_put = <<>>) =>
        LET n == Len(put_log) IN
        /\ stream_queue = put_log
        /\ chunk_size * (n - 1) < Len(arg.text) \/ n = 0
        /\ Len(arg.text) <= chunk_size * n
        /\ \A i \in 1..n :
               /\ put_log[i].msg_type = arg.msg_type
               /\ Len(put_log[i].content) \in 1..chunk_size
               /\ i < n => Len(put_log[i].content) = chunk_size
        /\ Concat(put_log) = arg.text
        /\ arg.text = <<>> => n = 0

\* A text of 5 characters has been put as two fragments, of 3 and of 2.
C26_Witness ==
    /\ op = "stream_smoothly"
    /\ to_put = <<>>
    /\ Len(arg.text) = 5
    /\ Len(put_log) = 2
    /\ Len(put_log[2].content) = 2

\* A parser accepts a text when it returns a value for it.
Accepts(parsed) == parsed \notin {ParseFail, Raises}

\* C29: for the payload of every call, parse_tool_result returns None
\* exactly when the payload is a text that holds "error" or that neither
\* json.loads nor ast.literal_eval accepts, and then the call is a no-op;
\* it returns what json.loads made of a text whenever json.loads accepts
\* it, else what ast.literal_eval made of it; and it returns a payload
\* that is not a text as it is.
C29_ParseOutcome ==
    op # "idle" =>
        LET out == parse_tool_result(arg) IN
        /\ arg.shape = "data" => out = arg.v
        /\ arg.shape = "str" =>
               /\ out = PyNone <=>
                      (arg.err \/ (~Accepts(arg.json) /\ ~Accepts(arg.lit)))
               /\ (~arg.err /\ Accepts(arg.json)) => out = arg.json
               /\ (~arg.err /\ ~Accepts(arg.json) /\ Accepts(arg.lit)) => out = arg.lit
        /\ out = PyNone => (ret = None /\ nodes = pnodes /\ links = plinks)

\* The keys each method requires of its payload.
RequiredKeys(name) == IF name = "create" THEN {"id", "name", "description"} ELSE {"id"}

\* The payload of the call is no dict, or a dict that lacks a required key.
LacksRequired == ~Readable(arg) \/ ~(RequiredKeys(op) \subseteq DOMAIN Sent(arg))

\* C30: no call raises to its caller; a call whose payload is no dict or
\* lacks a required key returns None and leaves the graph as it was; and
\* an edit or delete whose payload holds the id of a node and nothing else
\* is carried out.
C30_RequiredKeys ==
    op # "idle" =>
        /\ ret # Raised
        /\ LacksRequired => (ret = None /\ nodes = pnodes /\ links = plinks)
        /\ (/\ op \in {"edit", "delete"}
            /\ Readable(arg)
            /\ DOMAIN Sent(arg) = {"id"}
            /\ Sent(arg)["id"] \in NodeIds(pnodes)) => (ret # None /\ ret.action = op)

----------------------------------------------------------------------------
(* C33: the single-parent invariant under all four operations.             *)

\* C33: in every state create, edit, update_status and delete can reach
\* from the empty graph, with every create using an id that is not in the
\* graph, no id is the target of more than one link.
C33_SingleParent ==
    \A i \in DOMAIN links : \A j \in DOMAIN links :
        links[i].target = links[j].target => i = j

----------------------------------------------------------------------------
(* C34: what update_status and edit leave alone.                           *)

\* The links of L that do not point at id, in order.
NotTo(L, id) == SelectSeq(L, LAMBDA link : link.target # id)

\* C34: a successful update_status leaves the links as they were and every
\* node as it was but for the status of the node it names; a successful
\* edit leaves every node as it was but for the name and the description
\* of the node it names, and every link that does not point at that node
\* as and where it was; neither adds, removes or moves a node.
C34_Frame ==
    /\ (op = "update_status" /\ Succeeded) =>
           /\ links = plinks
           /\ Len(nodes) = Len(pnodes)
           /\ \A j \in DOMAIN nodes :
                  IF j = IndexOf(pnodes, ret.id)
                  THEN nodes[j] = [pnodes[j] EXCEPT !.status = nodes[j].status]
                  ELSE nodes[j] = pnodes[j]
    /\ (op = "edit" /\ Succeeded) =>
           /\ NotTo(links, ret.id) = NotTo(plinks, ret.id)
           /\ Len(nodes) = Len(pnodes)
           /\ \A j \in DOMAIN nodes :
                  IF j = IndexOf(pnodes, ret.id)
                  THEN nodes[j] = [pnodes[j] EXCEPT !.name = nodes[j].name,
                                                    !.description = nodes[j].description]
                  ELSE nodes[j] = pnodes[j]

\* An edit has renamed a node that has a child and taken a parent_id: the
\* link to the child is one the edit had to leave alone.
C34_Witness ==
    /\ op = "edit"
    /\ Succeeded
    /\ "parent_id" \in DOMAIN Sent(arg)
    /\ \E i \in DOMAIN plinks : plinks[i].source = ret.id /\ plinks[i].target # ret.id
    /\ nodes # pnodes

----------------------------------------------------------------------------
(* C35: the descendant search of a cascade delete.                         *)

\* s holds no value twice.
NoDuplicates(s) == \A i \in DOMAIN s : \A j \in DOMAIN s : s[i] = s[j] => i = j

----------------------------------------------------------------------------
(* C31, C32, C36: the graph and the two threads of a streaming turn.       *)

\* C31: the graph does not change between a mutation and the put of its
\* graph_update; the message put holds the graph as it is then; a message
\* put is never changed; and the event delivered for the message holds
\* that same graph, whatever the reasoning thread has done to the graph
\* before the relay took the message.
C31_SnapshotOfItsMutation ==
    /\ [][op # "idle" => (nodes' = nodes /\ links' = links)]_vars
    /\ [][(Len(put_log') > Len(put_log) /\ IsUpdateMessage(put_log'[Len(put_log')])) =>
              /\ Succeeded
              /\ put_log'[Len(put_log')].content.graph_data =
                     [nodes |-> nodes, links |-> links]]_vars
    /\ [][\A i \in DOMAIN put_log : put_log'[i] = put_log[i]]_vars
    /\ [](\A i \in 1..Taken :
              IsUpdateMessage(put_log[i]) =>
                  /\ IsGraphUpdate(yielded[i])
                  /\ i \notin live_yielded
                  /\ yielded[i].graph_data = put_log[i].content.graph_data)

\* The first update was delivered after a second mutation: its snapshot
\* holds one node, the graph two.
C31_Witness ==
    /\ yielded # <<>>
    /\ IsGraphUpdate(yielded[1])
    /\ 1 \notin live_yielded
    /\ Len(yielded[1].graph_data.nodes) = 1
    /\ Len(nodes) = 2
    /\ pc = "loop"
    /\ Len(yielded) = 1
    /\ Len(put_log) = 2

\* C32: once agent_done is set the reasoning thread has nothing left to
\* put, and when the relay has left its loop agent_done is set, the queue
\* is empty and every message put during the turn has been delivered, in
\* its place, before the final graph_update.
C32_NothingLost ==
    /\ agent_done => (to_put = <<>> /\ op = "idle")
    /\ pc \in {"final", "end"} =>
           /\ agent_done
           /\ stream_queue = <<>>
           /\ Len(yielded) >= Len(put_log)
           /\ \A i \in DOMAIN put_log : yielded[i] = Yield(put_log[i])
           /\ live_yielded \cap DOMAIN put_log = {}

\* The relay has left its loop after a turn of three messages, text and
\* an update among them, and is about to emit the final graph_update.
C32_Witness ==
    /\ pc = "final"
    /\ Len(put_log) = 3
    /\ Len(yielded) = 3
    /\ Where(put_log, IsUpdateMessage) # {}
    /\ \E i \in DOMAIN put_log : put_log[i].msg_type = "token"

\* C36: no step of the relay (a step that moves pc, yields an event or
\* sends one) changes the graph, and every step that changes the graph is
\* the GraphOperations call of one tool invocation of the reasoning
\* thread, made while no other invocation is in progress.
C36_RelayReadsOnly ==
    /\ [][(pc' # pc \/ yielded' # yielded \/ response' # response) =>
              (nodes' = nodes /\ links' = links)]_vars
    /\ [][(nodes' # nodes \/ links' # links) =>
              /\ op = "idle" /\ op' \in {"create", "edit"}
              /\ ~agent_done
              /\ pnodes' = nodes /\ plinks' = links
              /\ pc' = pc /\ yielded' = yielded /\ stream_queue' = stream_queue]_vars

\* The relay has yielded an update and holds the next message while a
\* later invocation has just changed the graph.
C36_Witness ==
    /\ pc = "get"
    /\ stream_queue # <<>>
    /\ yielded # <<>>
    /\ Succeeded
    /\ nodes # pnodes

----------------------------------------------------------------------------
(* C37: the endpoint without streaming.                                    *)

\* C37: from the call of agent.query on, no step changes the graph dict,
\* whatever the tools return to the driver, and the response chat returns
\* holds the graph of the request.
C37_GraphReturnedAsSupplied ==
    /\ [][op = "chat" => (nodes' = nodes /\ links' = links)]_vars
    /\ [](pc = "closed" =>
             response = <<ChatResponse("text", GraphData(pnodes, plinks))>>)

\* chat has returned after the driver's create_task_node call, for a
\* request of two nodes and a link.
C37_Witness ==
    /\ pc = "closed"
    /\ op = "chat"
    /\ arg = Structured(AsDict(tool_create_task_node("n1", "d", NoneVal, "c")))
    /\ Len(pnodes) = 2
    /\ Len(plinks) = 1
    /\ response # <<>>
    /\ Len(nodes) = 2

====
